---- MODULE Spec2Model ----
(***************************************************************************)
(* Model of src/app.py, the Streamlit newsletter generator.                *)
(*                                                                         *)
(* Text is a sequence of one-character strings, so that the marker search  *)
(* of remove_think_content is computed character by character.  One script *)
(* run of main() with one button pressed is one action of the session; the *)
(* run's locals are kept until RunEnds, the end of that script run, and no  *)
(* other run starts before it (Streamlit runs the script to its end).      *)
(* Spec is the session; FilterSpec applies remove_think_content and        *)
(* create_markdown to every text of FilterInputs.                          *)
(***************************************************************************)
EXTENDS Naturals, Sequences, FiniteSets

VARIABLES
    newsletter_content, \* st.session_state.newsletter_content
    generated,          \* history: a Generate run has stored non-empty content
    button,             \* the button pressed in the last script run
    prev_content,       \* newsletter_content when the last script run began
    draft_resp,         \* outcome of the LLM call in generate_newsletter
    enhance_resp,       \* outcome of the LLM call in enhance_newsletter
    refine_resp,        \* outcome of the LLM call in refine_newsletter
    initial_content,    \* main()'s local initial_content (line 229)
    call_arg,           \* content passed to refine_newsletter / create_markdown
    errors,             \* st.error messages of the last script run, in order
    articles,           \* the list fetch_news_articles got from the response
    top_orgs,           \* main()'s local top_orgs (line 204)
    search_outcome,     \* how the Search News branch of the last run ended
    markdown_data,      \* the document create_markdown returned
    text,               \* the argument of remove_think_content under test
    first_pass,         \* cleaned_text after line 160
    cleaned,            \* the value remove_think_content returned
    reapplied,          \* remove_think_content applied to its own result
    filter_pc           \* position of the filter harness

vars == <<newsletter_content, generated, button, prev_content, draft_resp,
          enhance_resp, refine_resp, initial_content, call_arg, errors,
          articles, top_orgs, search_outcome, markdown_data,
          text, first_pass, cleaned, reapplied, filter_pc>>

sessionVars == <<newsletter_content, generated, button, prev_content,
                 draft_resp, enhance_resp, refine_resp, initial_content,
                 call_arg, errors, articles, top_orgs, search_outcome>>

filterVars == <<text, first_pass, cleaned, reapplied, filter_pc>>

-----------------------------------------------------------------------------
(* Bounds *)

\* longest LLM output of the session, in chunks of OutChunks
MaxOut == 1

\* longest text handed to the filter harness, in chunks of FilterChunks
MaxChunks == 7

-----------------------------------------------------------------------------
(* Text *)

EmptyText == << >>

START_TAG == <<"<", "t", "h", "i", "n", "k", ">">>

END_TAG == <<"<", "/", "t", "h", "i", "n", "k", ">">>

Plain == <<"a">>

\* pieces of a start marker, which become one when the text between them goes
TagHead == <<"<", "t", "h", "i">>

TagTail == <<"n", "k", ">">>

RECURSIVE Flatten(_)
Flatten(chunks) ==
    IF chunks = << >> THEN << >>
    ELSE Head(chunks) \o Flatten(Tail(chunks))

ChunkSeqs(alphabet, n) == UNION {[1..k -> alphabet] : k \in 0..n}

TextsOf(alphabet, n) == {Flatten(cs) : cs \in ChunkSeqs(alphabet, n)}

\* a well-formed thought, as the prompts ask the LLM to write one
Thought == START_TAG \o Plain \o END_TAG

OutChunks == {START_TAG, END_TAG, Plain, Thought}

FilterChunks == {TagHead, TagTail, Thought, END_TAG, Plain}

\* what the LLM may return when the call does not raise (the empty text too)
Outputs == TextsOf(OutChunks, MaxOut)

FilterInputs(n) == TextsOf(FilterChunks, n)

\* tag occurs in s at index i
IsAt(s, i, tag) ==
    /\ i >= 1
    /\ i + Len(tag) - 1 <= Len(s)
    /\ \A k \in 1..Len(tag) : s[i + k - 1] = tag[k]

\* the first index >= from at which tag occurs in s, 0 when there is none
Find(s, tag, from) ==
    LET at == {i \in from..Len(s) : IsAt(s, i, tag)}
    IN  IF at = {} THEN 0 ELSE CHOOSE i \in at : \A j \in at : i <= j

\* Python's  tag in s
Contains(s, tag) == Find(s, tag, 1) # 0

\* re.sub of a start marker, the shortest run of any characters, an end
\* marker: leftmost matches, not overlapping, each replaced by "".
RECURSIVE SubShortest(_, _)
SubShortest(s, from) ==
    LET o == Find(s, START_TAG, from)
        c == IF o = 0 THEN 0 ELSE Find(s, END_TAG, o + Len(START_TAG))
    IN  IF o = 0 \/ c = 0
        THEN SubSeq(s, from, Len(s))
        ELSE SubSeq(s, from, o - 1) \o SubShortest(s, c + Len(END_TAG))

\* line 159-160: re.sub(r'<think>[\s\S]*?</think>', "", text)
FirstPass(s) == SubShortest(s, 1)

\* line 165: re.sub(r'<think>.*?</think>', "", cleaned_text, flags=re.DOTALL);
\* under DOTALL '.' is any character, the same class as [\s\S]
SecondPass(s) == SubShortest(s, 1)

\* lines 162-167, given cleaned_text as the first pass left it
DoubleCheck(cleaned_text) ==
    IF Contains(cleaned_text, START_TAG) \/ Contains(cleaned_text, END_TAG)
    THEN SecondPass(cleaned_text)
    ELSE cleaned_text

remove_think_content(s) == DoubleCheck(FirstPass(s))

\* datetime.now().strftime('%B %d, %Y')
Dates == {"November 03, 2026"}

\* lines 148-149; no piece of the header holds a '<', so no marker starts in it
Header(date) ==
    <<"# AI & Data Analytics Newsletter\n\n", "**Generated on ", date, "**\n\n">>

create_markdown(content, date) ==
    LET cleaned_content == remove_think_content(content)
    IN  Header(date) \o cleaned_content

-----------------------------------------------------------------------------
(* The filter on its own: every input text, filtered, filtered again, exported *)

SessionIdle ==
    /\ newsletter_content = EmptyText
    /\ generated = FALSE
    /\ prev_content = EmptyText
    /\ draft_resp = [status |-> "none", text |-> EmptyText]
    /\ enhance_resp = [status |-> "none", text |-> EmptyText]
    /\ refine_resp = [status |-> "none", text |-> EmptyText]
    /\ initial_content = EmptyText
    /\ call_arg = EmptyText
    /\ errors = << >>
    /\ articles = << >>
    /\ top_orgs = << >>
    /\ search_outcome = "none"

FilterInit ==
    /\ SessionIdle
    /\ button = "none"
    /\ markdown_data = << >>
    /\ text \in FilterInputs(MaxChunks)
    /\ first_pass = EmptyText
    /\ cleaned = EmptyText
    /\ reapplied = EmptyText
    /\ filter_pc = "input"

RemoveThinkContent ==
    /\ filter_pc = "input"
    /\ first_pass' = FirstPass(text)
    /\ cleaned' = remove_think_content(text)
    /\ filter_pc' = "filtered"
    /\ UNCHANGED <<sessionVars, markdown_data, text, reapplied>>

RemoveThinkContentAgain ==
    /\ filter_pc = "filtered"
    /\ reapplied' = remove_think_content(cleaned)
    /\ filter_pc' = "refiltered"
    /\ UNCHANGED <<sessionVars, markdown_data, text, first_pass, cleaned>>

CreateMarkdown ==
    /\ filter_pc = "refiltered"
    /\ \E date \in Dates : markdown_data' = create_markdown(text, date)
    /\ filter_pc' = "exported"
    /\ UNCHANGED <<sessionVars, text, first_pass, cleaned, reapplied>>

FilterNext == RemoveThinkContent \/ RemoveThinkContentAgain \/ CreateMarkdown

FilterSpec == FilterInit /\ [][FilterNext]_vars

-----------------------------------------------------------------------------
(* The LLM chain and the three operations on it *)

NoCall == [status |-> "none", text |-> EmptyText]

\* chain.run(...) raises, or returns a text, which may be empty
LlmOutcomes ==
    {[status |-> "raised", text |-> EmptyText]}
        \cup {[status |-> "returned", text |-> t] : t \in Outputs}

UserInputs == {EmptyText, Plain}

RefinementInstructions == {EmptyText, Plain}

generate_newsletter(user_input, llm) ==
    IF llm.status = "raised" THEN EmptyText ELSE llm.text

refine_newsletter_blank(current_content, refinement_instructions, llm) ==
    IF llm.status = "raised" THEN EmptyText ELSE llm.text

refine_newsletter(current_content, refinement_instructions, llm) ==
    IF llm.status = "raised" THEN current_content ELSE llm.text

enhance_newsletter(current_content, llm) ==
    IF llm.status = "raised" THEN current_content ELSE llm.text

\* the st.error of each except branch
ErrorOf(fn, llm) == IF llm.status = "raised" THEN <<fn>> ELSE << >>

-----------------------------------------------------------------------------
(* News search *)

\* pageSize of the request
PageSize == 5

\* source_count.most_common(3)
TopN == 3

MISSING == "<missing>"

SourceNames == {"A", "B", "C", "D"}

\* an article record of the response: its source.name, and its title, which
\* stands for the fields the rendering loop reads (lines 210-213)
ArticleRecords ==
    {[source_name |-> n, title |-> "t"] : n \in SourceNames \cup {MISSING}}
        \cup {[source_name |-> "A", title |-> MISSING]}

\* requests.get / raise_for_status raise, or the response holds a list
FetchOutcomes ==
    {[status |-> "raised", articles |-> << >>]}
        \cup {[status |-> "returned", articles |-> a] :
                a \in UNION {[1..k -> ArticleRecords] : k \in 0..PageSize}}

fetch_news_articles(resp) ==
    IF resp.status = "raised" THEN << >> ELSE resp.articles

Occurrences(srcs, n) == Cardinality({i \in 1..Len(srcs) : srcs[i] = n})

FirstIndex(srcs, n) ==
    CHOOSE i \in 1..Len(srcs) :
        srcs[i] = n /\ \A j \in 1..Len(srcs) : srcs[j] = n => i <= j

\* n comes before m in most_common: more articles, or as many and counted
\* first (a Counter keeps its keys in insertion order and the sort is stable)
BeforeLastSeen(srcs, n, m) ==
    \/ Occurrences(srcs, n) > Occurrences(srcs, m)
    \/ /\ Occurrences(srcs, n) = Occurrences(srcs, m)
       /\ FirstIndex(srcs, n) > FirstIndex(srcs, m)

Before(srcs, n, m) ==
    \/ Occurrences(srcs, n) > Occurrences(srcs, m)
    \/ /\ Occurrences(srcs, n) = Occurrences(srcs, m)
       /\ FirstIndex(srcs, n) < FirstIndex(srcs, m)

\* Counter(srcs).most_common(n)
most_common(srcs, n) ==
    LET keys == {srcs[i] : i \in 1..Len(srcs)}
        rank(k) == 1 + Cardinality({m \in keys : Before(srcs, m, k)})
        len == IF Cardinality(keys) < n THEN Cardinality(keys) ELSE n
    IN  [r \in 1..len |->
            LET k == CHOOSE k \in keys : rank(k) = r
            IN  <<k, Occurrences(srcs, k)>>]

SourcesOf(arts) == [i \in 1..Len(arts) |-> arts[i].source_name]

\* defined when every article has its source.name; else line 138 raises
get_top_news_orgs(arts) == most_common(SourcesOf(arts), TopN)

LacksSource(arts) == \E i \in 1..Len(arts) : arts[i].source_name = MISSING

LacksField(arts) == \E i \in 1..Len(arts) : arts[i].title = MISSING

-----------------------------------------------------------------------------
(* The session: one script run of main() per button *)

FilterIdle ==
    /\ text = EmptyText
    /\ first_pass = EmptyText
    /\ cleaned = EmptyText
    /\ reapplied = EmptyText
    /\ filter_pc = "idle"

Init ==
    /\ SessionIdle
    /\ button = "none"
    /\ markdown_data = << >>
    /\ FilterIdle

\* line 234: if st.session_state.newsletter_content:
DraftDisplayedAlways == TRUE

DraftDisplayed == newsletter_content # EmptyText

SearchNews ==
    /\ button = "none"
    /\ \E resp \in FetchOutcomes :
        /\ button' = "Search News"
        /\ prev_content' = newsletter_content
        /\ articles' = fetch_news_articles(resp)
        /\ errors' = IF resp.status = "raised"
                     THEN <<"Error fetching news articles">> ELSE << >>
        /\ IF articles' = << >>
           THEN /\ top_orgs' = << >>
                /\ search_outcome' = IF resp.status = "raised"
                                     THEN "fetch_failed" ELSE "no_articles"
           ELSE IF LacksSource(articles')
           THEN /\ top_orgs' = << >>
                /\ search_outcome' = "uncaught"
           ELSE /\ top_orgs' = get_top_news_orgs(articles')
                /\ search_outcome' = IF LacksField(articles')
                                     THEN "uncaught" ELSE "rendered"
        /\ draft_resp' = NoCall
        /\ enhance_resp' = NoCall
        /\ refine_resp' = NoCall
        /\ initial_content' = EmptyText
        /\ call_arg' = EmptyText
        /\ markdown_data' = << >>
        /\ UNCHANGED <<newsletter_content, generated, filterVars>>

GenerateNewsletter ==
    /\ button = "none"
    /\ \E user_input \in UserInputs, d \in LlmOutcomes, e \in LlmOutcomes :
        /\ button' = "Generate Newsletter"
        /\ prev_content' = newsletter_content
        /\ draft_resp' = d
        /\ initial_content' = generate_newsletter(user_input, d)
        /\ enhance_resp' = e
        /\ call_arg' = initial_content'
        /\ newsletter_content' = enhance_newsletter(initial_content', e)
        /\ generated' = (generated \/ newsletter_content' # EmptyText)
        /\ errors' = ErrorOf("Error generating newsletter", d)
                        \o ErrorOf("Error enhancing newsletter", e)
        /\ refine_resp' = NoCall
        /\ articles' = << >>
        /\ top_orgs' = << >>
        /\ search_outcome' = "none"
        /\ markdown_data' = << >>
        /\ UNCHANGED filterVars

ExportToMarkdown ==
    /\ button = "none"
    /\ DraftDisplayed
    /\ \E date \in Dates :
        markdown_data' = create_markdown(newsletter_content, date)
    /\ button' = "Export to Markdown"
    /\ prev_content' = newsletter_content
    /\ call_arg' = newsletter_content
    /\ draft_resp' = NoCall
    /\ enhance_resp' = NoCall
    /\ refine_resp' = NoCall
    /\ initial_content' = EmptyText
    /\ errors' = << >>
    /\ articles' = << >>
    /\ top_orgs' = << >>
    /\ search_outcome' = "none"
    /\ UNCHANGED <<newsletter_content, generated, filterVars>>

RefineContent ==
    /\ button = "none"
    /\ DraftDisplayed
    /\ \E refinement_instructions \in RefinementInstructions, r \in LlmOutcomes :
        /\ refine_resp' = r
        /\ newsletter_content' =
              refine_newsletter(newsletter_content, refinement_instructions, r)
        /\ errors' = ErrorOf("Error refining newsletter", r)
    /\ button' = "Refine Content"
    /\ prev_content' = newsletter_content
    /\ call_arg' = newsletter_content
    /\ draft_resp' = NoCall
    /\ enhance_resp' = NoCall
    /\ initial_content' = EmptyText
    /\ articles' = << >>
    /\ top_orgs' = << >>
    /\ search_outcome' = "none"
    /\ markdown_data' = << >>
    /\ UNCHANGED <<generated, filterVars>>

\* the script run ends: main()'s locals are gone, the session state stays
RunEnds ==
    /\ button # "none"
    /\ button' = "none"
    /\ prev_content' = EmptyText
    /\ draft_resp' = NoCall
    /\ enhance_resp' = NoCall
    /\ refine_resp' = NoCall
    /\ initial_content' = EmptyText
    /\ call_arg' = EmptyText
    /\ errors' = << >>
    /\ articles' = << >>
    /\ top_orgs' = << >>
    /\ search_outcome' = "none"
    /\ markdown_data' = << >>
    /\ UNCHANGED <<newsletter_content, generated, filterVars>>

Next ==
    \/ SearchNews
    \/ GenerateNewsletter
    \/ ExportToMarkdown
    \/ RefineContent
    \/ RunEnds

Spec == Init /\ [][Next]_vars

-----------------------------------------------------------------------------
(* Properties *)

\* a start marker followed later by an end marker
HasThinkPair(s) ==
    LET o == Find(s, START_TAG, 1)
    IN  o # 0 /\ Find(s, END_TAG, o + Len(START_TAG)) # 0

Returned(llm) == llm.status = "returned"

Raised(llm) == llm.status = "raised"

ReturnedEmpty(llm) == Returned(llm) /\ llm.text = EmptyText

\* C1: after a Generate run whose draft call or enhancement call failed, the
\* stored draft content equals its value before the run.
C1_FailedGenerateKeepsDraft ==
    (button = "Generate Newsletter" /\ (Raised(draft_resp) \/ Raised(enhance_resp)))
        => newsletter_content = prev_content

\* C2: a failed model call in enhance_newsletter or refine_newsletter returns
\* the current_content argument: after a failed Refine the stored draft is the
\* draft from before the run, and after a Generate whose enhancement failed it
\* is the content enhance_newsletter was given.
C2_FailedCallReturnsCurrentContent ==
    /\ (button = "Refine Content" /\ Raised(refine_resp))
          => (newsletter_content = prev_content /\ call_arg = prev_content)
    /\ (button = "Generate Newsletter" /\ Raised(enhance_resp))
          => newsletter_content = initial_content

C2_Witness ==
    /\ button = "Refine Content"
    /\ Raised(refine_resp)
    /\ prev_content = Thought
    /\ newsletter_content = prev_content
    /\ errors = <<"Error refining newsletter">>

\* C3: after a Generate run in which both model calls succeeded, the stored
\* draft content holds no marker pair.
C3_GeneratedDraftHasNoThinkPair ==
    (button = "Generate Newsletter" /\ Returned(draft_resp) /\ Returned(enhance_resp))
        => ~HasThinkPair(newsletter_content)

\* C4: the document create_markdown returns holds no start marker followed
\* later by an end marker, whatever the content.
C4_ExportHasNoThinkPair ==
    filter_pc = "exported" => ~HasThinkPair(markdown_data)

\* C5: remove_think_content is idempotent: applied to its own result it
\* returns that result.
C5_RemoveThinkContentIdempotent ==
    filter_pc \in {"refiltered", "exported"} => reapplied = cleaned

\* C6: a model call that returns the empty text without raising counts as a
\* failure: after a Refine or Generate run whose call for the stored text
\* returned the empty text, the stored draft content equals its value before
\* the run.
C6_EmptyBodyKeepsDraft ==
    /\ (button = "Refine Content" /\ ReturnedEmpty(refine_resp))
          => newsletter_content = prev_content
    /\ (button = "Generate Newsletter"
            /\ Returned(draft_resp) /\ ReturnedEmpty(enhance_resp))
          => newsletter_content = prev_content

\* the last index at which tag occurs in s, 0 when there is none
FindLast(s, tag) ==
    LET at == {i \in 1..Len(s) : IsAt(s, i, tag)}
    IN  IF at = {} THEN 0 ELSE CHOOSE i \in at : \A j \in at : i >= j

\* the one span from the first start marker through the last end marker
\* removed, when that end marker lies after the start marker
RemoveFirstStartToLastEnd(s) ==
    LET o == Find(s, START_TAG, 1)
        c == FindLast(s, END_TAG)
    IN  IF o # 0 /\ c >= o + Len(START_TAG)
        THEN SubSeq(s, 1, o - 1) \o SubSeq(s, c + Len(END_TAG), Len(s))
        ELSE s

\* C7: when a marker remains after the first pass, the result is the first
\* pass's text with the span from its first start marker through its last end
\* marker removed.
C7_SecondPassRemovesWidestSpan ==
    (filter_pc # "input"
        /\ (Contains(first_pass, START_TAG) \/ Contains(first_pass, END_TAG)))
        => cleaned = RemoveFirstStartToLastEnd(first_pass)

TopOrgsShown ==
    button = "Search News" /\ articles # << >> /\ ~LacksSource(articles)

\* C8: get_top_news_orgs returns at most 3 (source, count) pairs, each count
\* the number of articles of that source, in descending count, ties in the
\* order the sources first occur in the list; no source left out goes before
\* one that is listed.
C8_TopNewsOrgs ==
    TopOrgsShown =>
        LET srcs == SourcesOf(articles)
            n == Len(top_orgs)
            count(name) == Cardinality({i \in 1..Len(srcs) : srcs[i] = name})
            first(name) == CHOOSE i \in 1..Len(srcs) :
                              srcs[i] = name /\ \A j \in 1..(i - 1) : srcs[j] # name
            goesBefore(a, b) ==
                count(a) > count(b) \/ (count(a) = count(b) /\ first(a) < first(b))
            listed == {top_orgs[i][1] : i \in 1..n}
        IN  /\ n <= 3
            /\ n >= 1
            /\ \A i \in 1..n :
                  /\ top_orgs[i][1] \in {srcs[j] : j \in 1..Len(srcs)}
                  /\ top_orgs[i][2] = count(top_orgs[i][1])
            /\ \A i \in 1..n, j \in 1..n :
                  i < j => goesBefore(top_orgs[i][1], top_orgs[j][1])
            /\ \A j \in 1..Len(srcs) :
                  srcs[j] \notin listed
                      => (n = 3 /\ goesBefore(top_orgs[n][1], srcs[j]))

C8_Witness ==
    /\ TopOrgsShown
    /\ SourcesOf(articles) = <<"A", "A", "B", "C", "A">>
    /\ top_orgs = << <<"A", 3>>, <<"B", 1>>, <<"C", 1>> >>

\* C9: a Search News response with an article lacking a field ends as a
\* handled fetch failure (error shown, no articles), never in an uncaught
\* exception, and leaves the stored draft content as it was.
C9_MalformedArticleIsFetchFailure ==
    (button = "Search News" /\ (LacksSource(articles) \/ LacksField(articles)))
        => /\ search_outcome = "fetch_failed"
           /\ errors # << >>
           /\ newsletter_content = prev_content

\* C10: Refine and Export are enabled only while the stored draft content is
\* non-empty, refine_newsletter and create_markdown are never called with
\* empty content, and neither runs before a Generate run has stored non-empty
\* content.
C10_RefineExportNeedDraft ==
    /\ (ENABLED RefineContent \/ ENABLED ExportToMarkdown)
          => newsletter_content # EmptyText
    /\ button \in {"Refine Content", "Export to Markdown"}
          => (call_arg # EmptyText /\ call_arg = prev_content /\ generated)

\* a Refine run whose call returned the empty text: the draft is empty again
\* and neither Refine nor Export is offered
C10_Witness ==
    /\ button = "Refine Content"
    /\ call_arg # EmptyText
    /\ newsletter_content = EmptyText
    /\ ~ENABLED RefineContent

====
